---- MODULE Spec2Model ----
(***************************************************************************)
(* Model of the AWS GameKit Unreal runtime glue:                           *)
(*   - TAwsGameKitInternalThreadedAction (AwsGameKitBlueprintCommon.h):    *)
(*     one latent action, its background worker, the shared result holder  *)
(*     and the latent action manager polling UpdateOperation;              *)
(*   - AwsGameKitSessionManagerWrapper::getLibraryFilename.                *)
(* The poller (game thread) and the worker (Async thread) are two          *)
(* processes; the poller's position inside UpdateOperation is pollPc, so   *)
(* that worker enqueues interleave with the drain loop.                    *)
(***************************************************************************)
EXTENDS Integers, Sequences, FiniteSets, TLC

\* ---------------------------------------------------------------- bounds
\* Largest number of partial results the worker streams into the queue.
MaxEnqueue == 2
\* Number of distinct non-empty result values.
NumResultValues == 2

\* Address and size of the persistent uber-graph frame of the calling graph.
PersistentFrame == 4096
PersistentFrameSize == 3

\* ---------------------------------------------------------------- values
\* A default-constructed ResultType (ResultType TempResults / EmptyResults).
EmptyResults == 0
ResultValues == 1..NumResultValues
AllResults == {EmptyResults} \cup ResultValues

GAMEKIT_SUCCESS == "GAMEKIT_SUCCESS"
StatusCodes == {GAMEKIT_SUCCESS, "GAMEKIT_ERROR_A", "GAMEKIT_ERROR_B"}

\* FAwsGameKitOperationResult, reduced to the field the action inspects.
OperationResult(s) == [Status |-> s]

\* EAwsGameKitSuccessOrFailureExecutionPin
OnSuccess == "OnSuccess"
OnFailure == "OnFailure"

\* PartialResultsDelegateType: FNoopStruct, or a delegate that is or is not bound.
DelegateKinds == {"FNoopStruct", "Unbound", "Bound"}

\* Delegate.IsBound(); FNoopStruct selects the empty overloads instead.
IsBound(d) == d = "Bound"

\* Platforms the plugin is built for (PLATFORM_* macros).
Platforms == {"Windows", "Mac", "IOS", "Android"}

VARIABLES
    delegate,            \* kind of PartialResultsDelegate the action was built with
    launched,            \* ThreadedResult.IsValid()
    workerPc,            \* "notStarted" | "running" | "ready" | "released"
    Err,                 \* ThreadedState->Err
    Results,             \* ThreadedState->Results
    queueSet,            \* ThreadedState->PartialResultsQueue.IsSet()
    PartialResultsQueue, \* contents of the queue
    refs,                \* owners of the shared holder (TSharedPtr copies)
    actionAlive,         \* the action object has not been deleted
    pollPc,              \* position of the poller inside UpdateOperation
    bThreadComplete,     \* what IsReady() returned in the running poll
    bInvokedWithFinal,   \* local of DispatchPartialResults
    OutResults,          \* the three output references
    OutStatus,
    OutSuccessOrFailure,
    finished,            \* number of FinishAndTriggerIf(true, ...) signals
    checkFailed,         \* the check() that fired (fatal), or "none"
    \* history
    enqueued,            \* every value the worker enqueued, in order
    storedResults,       \* last value the worker left in Results
    calls,               \* every Delegate.Execute, in order
    outWrites,           \* number of times the outputs were written
    lastPoll,            \* what the last returned poll did
    strayAccess,         \* an access to the holder after it was freed
    platform,            \* platform the plugin was compiled for
    library,             \* "unloaded" | "loaded" | "noop"
    outAddr,             \* addresses of the caller's three output arguments
    outRef,              \* what the three output references were bound to
    written,             \* history: the targets the output writes went to
    State,               \* the holder handed back to the caller of the factory
    storedErr,           \* history: last value the worker stored as Err
    registry             \* the latent action manager's (target, UUID) -> action

holderVars == <<Err, Results, queueSet, PartialResultsQueue, refs>>
outVars == <<OutResults, OutStatus, OutSuccessOrFailure>>
pollVars == <<pollPc, bThreadComplete, bInvokedWithFinal>>
histVars == <<enqueued, storedResults, calls, outWrites, lastPoll, strayAccess>>
libVars == <<platform, library>>
ctorVars == <<outAddr, outRef, State>>
vars == <<delegate, launched, workerPc, holderVars, actionAlive, pollVars,
          outVars, finished, checkFailed, histVars, libVars, ctorVars,
          written, storedErr, registry>>

\* The holder is allocated while some TSharedPtr still refers to it.
HolderLive(r) == r # {}

\* ---------------------------------------------------------------- library
\* AwsGameKitSessionManagerWrapper::getLibraryFilename, as a sequence of characters.
BaseName == <<"a","w","s","-","g","a","m","e","k","i","t","-",
              "a","u","t","h","e","n","t","i","c","a","t","i","o","n">>

\* Variant: the unsupported platforms get the Linux shared object's name.
getLibraryFilename_WithExtension(p) ==
    IF p = "Windows" THEN BaseName
    ELSE IF p = "Mac" THEN <<"l","i","b">> \o BaseName
    ELSE <<"l","i","b">> \o BaseName \o <<".","s","o">>

getLibraryFilename(p) ==
    IF p = "Windows" THEN BaseName
    ELSE IF p = "Mac" THEN <<"l","i","b">> \o BaseName
    ELSE <<>>

\* ---------------------------------------------------------------- action
\* Variant: the Emplace is missing, the queue is never allocated.
InitializePartialResultQueue_Never(d) == FALSE

\* Variant: the queue is emplaced for every real delegate type, bound or not.
InitializePartialResultQueue_AnyDelegate(d) == d # "FNoopStruct"

\* InitializePartialResultQueue: FNoopStruct overload does nothing, the
\* template emplaces the queue when the delegate is bound.
InitializePartialResultQueue(d) == IsBound(d)

\* ---------------------------------------------------------------- outputs
\* The three output arguments of the factory.
Outputs == {"SuccessOrFailure", "Results", "Status"}

\* 256 MB sanity limit for a single function frame.
ExtremelyLargeBPFrameSize == 268435456
\* How far above the local stackobj a caller's stack variable may lie.
NearbyStackAddressLimit == 16384

\* Address of the local stackobj of InternalAwsGameKitThreadedActionSafeOutputRef;
\* here the native stack lies right behind the persistent frame.
StackObj == PersistentFrame + PersistentFrameSize

\* check(PersistentFrame && PersistentFrameSize > 0 && PersistentFrameSize < limit)
FrameSane ==
    /\ PersistentFrame # 0
    /\ PersistentFrameSize > 0 /\ PersistentFrameSize < ExtremelyLargeBPFrameSize

\* Variant: the upper end of the range is tested with <=.
InFrame_Closed(a) == a >= PersistentFrame /\ a <= PersistentFrame + PersistentFrameSize

\* &OutRef >= PersistentFrame && &OutRef < PersistentFrame + PersistentFrameSize
InFrame(a) == a >= PersistentFrame /\ a < PersistentFrame + PersistentFrameSize

\* (size_t)(&OutRef - &stackobj) < NearbyStackAddressLimit: the unsigned cast
\* makes an address below stackobj a huge distance.
NearbyStack(a) == a - StackObj >= 0 /\ a - StackObj < NearbyStackAddressLimit

\* A reference to the caller's own variable at address a.
CallerRef(a) == [junk |-> FALSE, addr |-> a, of |-> "caller"]

\* static VariableType StaticJunkVarForIgnoredOutput, one per instantiation;
\* it is not at any address an argument can have.
Junk(o) == [junk |-> TRUE, addr |-> 0, of |-> o]

\* InternalAwsGameKitThreadedActionSafeOutputRef: the reference it returns.
SafeOutputRef(a, o) == IF InFrame(a) THEN CallerRef(a) ELSE Junk(o)

\* The checks of InternalAwsGameKitThreadedActionSafeOutputRef pass.
SafeOutputRefChecks(a) == FrameSane /\ (InFrame(a) \/ NearbyStack(a))

\* Addresses an output argument may have: around both ends of the persistent
\* frame, on the nearby stack, and just beyond it.
OutputAddresses ==
    {PersistentFrame - 1, PersistentFrame, PersistentFrame + 1,
     PersistentFrame + PersistentFrameSize - 1, PersistentFrame + PersistentFrameSize,
     StackObj + 1, StackObj + NearbyStackAddressLimit}

\* Three distinct objects.
AllLayouts ==
    {l \in [Outputs -> OutputAddresses] :
        \A o1, o2 \in Outputs : o1 # o2 => l[o1] # l[o2]}

\* All three output pins connected: the arguments live in the persistent frame.
FrameLayout ==
    [o \in Outputs |->
        IF o = "SuccessOrFailure" THEN PersistentFrame
        ELSE IF o = "Results" THEN PersistentFrame + 1
        ELSE PersistentFrame + PersistentFrameSize - 1]

\* The request-only overload of InternalMakeAwsGameKitThreadedAction passes its
\* local FNoopStruct Result, a stack variable, as Results.
RequestOnlyLayout == [FrameLayout EXCEPT !["Results"] = StackObj + 1]

\* The request-only overload exists for the FNoopStruct delegate only.
Layouts(d) == IF d = "FNoopStruct" THEN {FrameLayout, RequestOnlyLayout} ELSE {FrameLayout}

\* ---------------------------------------------------------------- factory
\* The holder the constructor allocates: new TAwsGameKitInternalActionState.
ThreadedState == "ThreadedState"

\* The FLatentActionInfo of the call.
LatentInfo == [CallbackTarget |-> "CallbackTarget", UUID |-> "UUID"]

\* Variant: the caller gets a holder of its own.
HandBack_Fresh(h) == "fresh"

\* State = Action->ThreadedState
HandBack(h) == h

\* LatentActionManager.AddNewAction(CallbackTarget, UUID, Action)
AddNewAction(reg, target, uuid, action) ==
    reg \cup {[target |-> target, uuid |-> uuid, action |-> action]}

\* The state after InternalMakeAwsGameKitThreadedAction returned: the action
\* built with delegate d and output arguments at the addresses addr.
InitState(d, addr) ==
    /\ delegate = d
    /\ launched = FALSE
    /\ workerPc = "notStarted"
    /\ \E s \in StatusCodes :
        /\ Err = OperationResult(s) /\ OutStatus = OperationResult(s)
        /\ storedErr = OperationResult(s)
    /\ Results = EmptyResults
    /\ queueSet = InitializePartialResultQueue(d)
    /\ PartialResultsQueue = <<>>
    /\ refs = {"action", "State"}
    /\ actionAlive = TRUE
    /\ pollPc = "idle"
    /\ bThreadComplete = FALSE
    /\ bInvokedWithFinal = FALSE
    /\ OutResults = EmptyResults
    /\ OutSuccessOrFailure = OnSuccess
    /\ finished = 0
    /\ checkFailed = IF \A o \in Outputs : SafeOutputRefChecks(addr[o])
                     THEN "none" ELSE "SafeOutputRef"
    /\ enqueued = <<>>
    /\ storedResults = EmptyResults
    /\ calls = <<>>
    /\ outWrites = 0
    /\ lastPoll = "none"
    /\ strayAccess = FALSE
    /\ platform \in Platforms
    /\ library = "unloaded"
    /\ outAddr = addr
    /\ outRef = [o \in Outputs |-> SafeOutputRef(addr[o], o)]
    /\ written = {}
    /\ State = HandBack(ThreadedState)
    /\ registry = AddNewAction({}, LatentInfo.CallbackTarget, LatentInfo.UUID, "action")

Init == \E d \in DelegateKinds : \E addr \in Layouts(d) : InitState(d, addr)

\* ---------------------------------------------------------------- helpers
\* Variant: the validity check is missing.
IsValid_Unchecked(l) == TRUE

\* TFuture::IsValid(): a future is valid once Async() returned it.
IsValid(l) == l

\* Variant: IsValid() is tested where IsReady() was meant.
IsReady_Valid(pc) == TRUE

\* Variant: a started task counts as ready.
IsReady_WhenStarted(pc) == pc # "notStarted"

\* TFuture::IsReady(): the worker's lambda has returned.
IsReady(pc) == pc \in {"ready", "released"}

\* Variant: the holder is owned by one party; its release frees the holder.
ReleaseRef_Unique(r, owner) == {}

\* A TSharedPtr copy going away (destructor of its owner).
ReleaseRef(r, owner) == r \ {owner}

\* Variant: the IsEmpty() test is missing.
FinalInvoke_NoEmptyTest(complete, rest) == complete

\* bFinalInvoke = bThreadComplete && PartialResultsQueue->IsEmpty(), evaluated
\* after the Dequeue; rest is the queue left behind by that Dequeue.
FinalInvoke(complete, rest) == complete /\ rest = <<>>

\* Variant: the newest item is handed out while the oldest is removed.
DequeueItem_Newest(q) == q[Len(q)]

\* TQueue::Dequeue: the oldest item, and the queue without it.
DequeueItem(q) == Head(q)
DequeueRest(q) == Tail(q)

\* Variant: the two pins are swapped.
ExecutionPin_Swapped(status) == IF status = GAMEKIT_SUCCESS THEN OnFailure ELSE OnSuccess

\* Err.Status == GAMEKIT_SUCCESS ? OnSuccess : OnFailure
ExecutionPin(status) == IF status = GAMEKIT_SUCCESS THEN OnSuccess ELSE OnFailure

\* Variant: the IsBound test is inverted, a bound delegate is never served.
DispatchReturnsEarly_Inverted(d) == d = "FNoopStruct" \/ IsBound(d)

\* DispatchPartialResults does nothing for FNoopStruct (empty overload) and
\* returns at once when the delegate is not bound.
DispatchReturnsEarly(d) == d = "FNoopStruct" \/ ~IsBound(d)

\* Variant: the ready branch signals the latent response without the writes.
AfterDispatch_SignalFirst(complete) == IF complete THEN "finish" ELSE "idle"

\* Variant: the not-ready branch falls through into the output writes.
AfterDispatch_FallThrough(complete) == "write"

\* Where UpdateOperation goes after DispatchPartialResults returned: the ready
\* branch goes on to write the outputs, the other branch returns.
AfterDispatch(complete) == IF complete THEN "write" ELSE "idle"

\* Variant: the trailing invocation is missing.
NeedsTrailingInvoke_Never(complete, invoked) == FALSE

\* if (bThreadComplete && !bInvokedWithFinal): one more Execute with EmptyResults.
NeedsTrailingInvoke(complete, invoked) == complete /\ ~invoked

\* One Delegate.Execute(InRequest, result, final) as a history entry; dequeued
\* tells a queued item from the EmptyResults of the trailing invocation and
\* complete is the bThreadComplete of the poll that made the call.
Invocation(result, final, dequeued, complete) ==
    [result |-> result, final |-> final, dequeued |-> dequeued, complete |-> complete]

\* An access to the holder through a raw capture is stray once it was freed.
Access(r) == strayAccess' = (strayAccess \/ ~HolderLive(r))

\* ---------------------------------------------------------------- launch
\* LaunchThreadedWork: ThreadedResult = Async(EAsyncExecution::Thread, Lambda).
\* The lambda captures the State pointer the factory handed out. The work
\* calls through the library wrappers, which were initialised before.
LaunchThreadedWork ==
    /\ ~launched /\ actionAlive /\ checkFailed = "none" /\ pollPc = "idle"
    /\ library # "unloaded"
    /\ launched' = TRUE
    /\ workerPc' = "running"
    /\ refs' = ReleaseRef(refs, "State") \cup {"worker"}
    /\ UNCHANGED <<ctorVars, written, storedErr, registry>>
    /\ UNCHANGED <<delegate, Err, Results, queueSet, PartialResultsQueue, actionAlive,
                   pollVars, outVars, finished, checkFailed, histVars, libVars>>

\* ---------------------------------------------------------------- worker
\* The lambda reaches the holder through the State pointer it captured.
\* It streams a partial result into the queue when the queue is valid.
WorkerEnqueue ==
    /\ workerPc = "running" /\ checkFailed = "none"
    /\ State = ThreadedState /\ queueSet
    /\ Len(enqueued) < MaxEnqueue
    /\ \E v \in ResultValues :
        /\ PartialResultsQueue' = Append(PartialResultsQueue, v)
        /\ enqueued' = Append(enqueued, v)
    /\ Access(refs)
    /\ UNCHANGED <<ctorVars, written, storedErr, registry>>
    /\ UNCHANGED <<delegate, launched, workerPc, Err, Results, queueSet, refs, actionAlive,
                   pollVars, outVars, finished, checkFailed, storedResults, calls,
                   outWrites, lastPoll, libVars>>

\* The lambda fills ThreadedState->Results.
WorkerSetResults ==
    /\ workerPc = "running" /\ checkFailed = "none"
    /\ \E v \in AllResults :
        /\ Results' = IF State = ThreadedState THEN v ELSE Results
        /\ storedResults' = v
    /\ Access(refs)
    /\ UNCHANGED <<ctorVars, written, storedErr, registry>>
    /\ UNCHANGED <<delegate, launched, workerPc, Err, queueSet, PartialResultsQueue, refs,
                   actionAlive, pollVars, outVars, finished, checkFailed, enqueued, calls,
                   outWrites, lastPoll, libVars>>

\* The lambda fills ThreadedState->Err.
WorkerSetErr ==
    /\ workerPc = "running" /\ checkFailed = "none"
    /\ \E s \in StatusCodes :
        /\ Err' = IF State = ThreadedState THEN OperationResult(s) ELSE Err
        /\ storedErr' = OperationResult(s)
    /\ Access(refs)
    /\ UNCHANGED <<ctorVars, written, registry>>
    /\ UNCHANGED <<delegate, launched, workerPc, Results, queueSet, PartialResultsQueue, refs,
                   actionAlive, pollVars, outVars, finished, checkFailed, enqueued,
                   storedResults, calls, outWrites, lastPoll, libVars>>

\* The lambda returns: the future becomes ready.
WorkerComplete ==
    /\ workerPc = "running" /\ checkFailed = "none"
    /\ workerPc' = "ready"
    /\ UNCHANGED <<ctorVars, written, storedErr, registry>>
    /\ UNCHANGED <<delegate, launched, holderVars, actionAlive, pollVars, outVars,
                   finished, checkFailed, histVars, libVars>>

\* The finished task destroys the lambda and with it the captured pointer.
WorkerRelease ==
    /\ workerPc = "ready" /\ checkFailed = "none"
    /\ workerPc' = "released"
    /\ refs' = ReleaseRef(refs, "worker")
    /\ UNCHANGED <<ctorVars, written, storedErr, registry>>
    /\ UNCHANGED <<delegate, launched, Err, Results, queueSet, PartialResultsQueue,
                   actionAlive, pollVars, outVars, finished, checkFailed, histVars, libVars>>

\* ---------------------------------------------------------------- poller
\* UpdateOperation up to the drain loop: the check, IsReady() and the entry of
\* DispatchPartialResults (IsBound early return, check on the queue).
\* The latent action manager polls live, unfinished actions only.
UpdateOperation ==
    /\ actionAlive /\ checkFailed = "none" /\ finished = 0 /\ pollPc = "idle"
    /\ \E e \in registry : e.action = "action"
    /\ IF ~IsValid(launched)
       THEN /\ checkFailed' = "ThreadedResult.IsValid"
            /\ UNCHANGED <<pollVars, lastPoll, strayAccess>>
       ELSE LET ready == IsReady(workerPc) IN
            IF DispatchReturnsEarly(delegate)
            THEN /\ pollPc' = AfterDispatch(ready)
                 /\ bThreadComplete' = ready
                 /\ lastPoll' = IF ready THEN lastPoll ELSE "forwarded"
                 /\ UNCHANGED <<bInvokedWithFinal, checkFailed, strayAccess>>
            ELSE IF ~queueSet
            THEN /\ checkFailed' = "PartialResultsQueue"
                 /\ Access(refs)
                 /\ UNCHANGED <<pollVars, lastPoll>>
            ELSE /\ pollPc' = "drain"
                 /\ bThreadComplete' = ready
                 /\ bInvokedWithFinal' = FALSE
                 /\ Access(refs)
                 /\ UNCHANGED <<checkFailed, lastPoll>>
    /\ UNCHANGED <<ctorVars, written, storedErr, registry>>
    /\ UNCHANGED <<delegate, launched, workerPc, holderVars, actionAlive, outVars,
                   finished, enqueued, storedResults, calls, outWrites, libVars>>

\* One iteration of the drain loop: Dequeue succeeded, Delegate.Execute.
DispatchDequeue ==
    /\ pollPc = "drain" /\ PartialResultsQueue # <<>>
    /\ LET TempResults == DequeueItem(PartialResultsQueue)
           rest == DequeueRest(PartialResultsQueue)
           bFinalInvoke == FinalInvoke(bThreadComplete, rest)
       IN /\ PartialResultsQueue' = rest
          /\ bInvokedWithFinal' = (bInvokedWithFinal \/ bFinalInvoke)
          /\ calls' = Append(calls, Invocation(TempResults, bFinalInvoke, TRUE, bThreadComplete))
    /\ Access(refs)
    /\ UNCHANGED <<ctorVars, written, storedErr, registry>>
    /\ UNCHANGED <<delegate, launched, workerPc, Err, Results, queueSet, refs, actionAlive,
                   pollPc, bThreadComplete, outVars, finished, checkFailed, enqueued,
                   storedResults, outWrites, lastPoll, libVars>>

\* Variant: a poll that found the task running waits in the loop for it.
DequeueFailed_WaitsForThread ==
    /\ pollPc = "drain" /\ PartialResultsQueue = <<>>
    /\ (bThreadComplete \/ workerPc # "running")

\* while (PartialResultsQueue->Dequeue(TempResults)): Dequeue returns false on
\* an empty queue, whatever the worker is doing.
DequeueFailed == pollPc = "drain" /\ PartialResultsQueue = <<>>

\* Dequeue failed: the loop ends; a complete thread that saw no final
\* invocation gets one with EmptyResults. An incomplete poll returns here.
DispatchLoopExit ==
    /\ DequeueFailed
    /\ calls' = IF NeedsTrailingInvoke(bThreadComplete, bInvokedWithFinal)
                THEN Append(calls, Invocation(EmptyResults, TRUE, FALSE, bThreadComplete))
                ELSE calls
    /\ pollPc' = AfterDispatch(bThreadComplete)
    /\ lastPoll' = IF bThreadComplete THEN lastPoll ELSE "forwarded"
    /\ bInvokedWithFinal' = FALSE
    /\ Access(refs)
    /\ UNCHANGED <<ctorVars, written, storedErr, registry>>
    /\ UNCHANGED <<delegate, launched, workerPc, holderVars, actionAlive, bThreadComplete,
                   outVars, finished, checkFailed, enqueued, storedResults, outWrites, libVars>>

\* OutResults = MoveTemp(Results); OutStatus = Err; OutSuccessOrFailure = ...
\* The three writes go through the references bound by the constructor.
\* The moved-from Results keeps its value or is left empty.
WriteOutputs ==
    /\ pollPc = "write"
    /\ OutResults' = Results
    /\ Results' \in {Results, EmptyResults}
    /\ OutStatus' = Err
    /\ OutSuccessOrFailure' = ExecutionPin(Err.Status)
    /\ outWrites' = outWrites + 1
    /\ written' = written \cup {outRef[o] : o \in Outputs}
    /\ pollPc' = "finish"
    /\ Access(refs)
    /\ UNCHANGED <<ctorVars, storedErr, registry>>
    /\ UNCHANGED <<delegate, launched, workerPc, Err, queueSet, PartialResultsQueue, refs,
                   actionAlive, bThreadComplete, bInvokedWithFinal, finished, checkFailed,
                   enqueued, storedResults, calls, lastPoll, libVars>>

\* Response.FinishAndTriggerIf(true, ...), and UpdateOperation returns.
FinishAndTrigger ==
    /\ pollPc = "finish"
    /\ finished' = finished + 1
    /\ pollPc' = "idle"
    /\ bThreadComplete' = FALSE
    /\ lastPoll' = "finalized"
    /\ UNCHANGED <<ctorVars, written, storedErr, registry>>
    /\ UNCHANGED <<delegate, launched, workerPc, holderVars, actionAlive, bInvokedWithFinal,
                   outVars, checkFailed, enqueued, storedResults, calls, outWrites,
                   strayAccess, libVars>>

\* The latent action manager deletes the action (it finished, or its object
\* or the whole VM went away), between two polls.
DestroyAction ==
    /\ actionAlive /\ checkFailed = "none" /\ pollPc = "idle"
    /\ actionAlive' = FALSE
    /\ refs' = ReleaseRef(refs, "action")
    /\ registry' = {e \in registry : e.action # "action"}
    /\ UNCHANGED <<ctorVars, written, storedErr>>
    /\ UNCHANGED <<delegate, launched, workerPc, Err, Results, queueSet, PartialResultsQueue,
                   pollVars, outVars, finished, checkFailed, histVars, libVars>>

\* ---------------------------------------------------------------- library
\* AwsGameKitLibraryWrapper::Initialize, run on the game thread when the
\* runtime starts: an empty filename loads nothing.
LoadLibrary ==
    /\ library = "unloaded" /\ checkFailed = "none" /\ pollPc = "idle"
    /\ library' = IF getLibraryFilename(platform) = <<>> THEN "noop" ELSE "loaded"
    /\ UNCHANGED <<ctorVars, written, storedErr, registry>>
    /\ UNCHANGED <<delegate, launched, workerPc, holderVars, actionAlive, pollVars,
                   outVars, finished, checkFailed, histVars, platform>>

Next ==
    \/ LaunchThreadedWork
    \/ WorkerEnqueue
    \/ WorkerSetResults
    \/ WorkerSetErr
    \/ WorkerComplete
    \/ WorkerRelease
    \/ UpdateOperation
    \/ DispatchDequeue
    \/ DispatchLoopExit
    \/ WriteOutputs
    \/ FinishAndTrigger
    \/ DestroyAction
    \/ LoadLibrary

Spec == Init /\ [][Next]_vars

\* The action without a partial-results delegate, for output arguments at
\* any of the addresses; the drain loop is never entered.
OutputRefInit == \E addr \in AllLayouts : InitState("FNoopStruct", addr)

OutputRefNext ==
    \/ LaunchThreadedWork
    \/ WorkerSetResults
    \/ WorkerSetErr
    \/ WorkerComplete
    \/ WorkerRelease
    \/ UpdateOperation
    \/ WriteOutputs
    \/ FinishAndTrigger
    \/ DestroyAction
    \/ LoadLibrary

OutputRefSpec == OutputRefInit /\ [][OutputRefNext]_vars

TypeOK ==
    /\ delegate \in DelegateKinds
    /\ launched \in BOOLEAN
    /\ workerPc \in {"notStarted", "running", "ready", "released"}
    /\ Results \in AllResults
    /\ pollPc \in {"idle", "drain", "write", "finish"}
    /\ finished \in 0..1
    /\ checkFailed \in {"none", "ThreadedResult.IsValid", "PartialResultsQueue",
                        "SafeOutputRef"}
    /\ \A o \in Outputs : outAddr[o] \in OutputAddresses
    /\ Len(enqueued) <= MaxEnqueue

\* ---------------------------------------------------------------- properties
\* The worker's lambda has returned (stated on the worker's own position).
WorkerReturned == workerPc \in {"ready", "released"}

\* The results of the invocations that came from dequeued items, in order.
RECURSIVE DequeuedResults(_)
DequeuedResults(cs) ==
    IF cs = <<>> THEN <<>>
    ELSE IF Head(cs).dequeued
         THEN <<Head(cs).result>> \o DequeuedResults(Tail(cs))
         ELSE DequeuedResults(Tail(cs))

\* C1: the final outputs are written and completion is signalled at most
\* once, never before the worker's task is ready, and a poll that wrote the
\* outputs signals completion before it returns: once signalled, both
\* happened exactly once.
C1_FinalResultExactlyOnce ==
    /\ outWrites <= 1
    /\ finished <= 1
    /\ (outWrites > 0 \/ finished > 0 \/ pollPc \in {"write", "finish"}) => WorkerReturned
    /\ finished = 1 => outWrites = 1
    /\ (outWrites = 1 /\ pollPc = "idle") => finished = 1

C1_Witness ==
    /\ finished = 1 /\ outWrites = 1 /\ lastPoll = "finalized"
    /\ OutResults # EmptyResults

\* C2: with a bound delegate, the results handed to Delegate.Execute from
\* dequeued items, followed by what is still queued, are exactly what the
\* worker enqueued, in order: nothing is delivered twice, skipped or reordered.
C2_DeliveredInEnqueueOrder ==
    delegate = "Bound" => DequeuedResults(calls) \o PartialResultsQueue = enqueued

C2_Witness ==
    /\ delegate = "Bound"
    /\ Len(enqueued) >= 2 /\ enqueued[1] # enqueued[2]
    /\ PartialResultsQueue = <<>>
    /\ DequeuedResults(calls) = enqueued
    /\ ~calls[1].complete

\* C4: the completion flag is true only on the last invocation ever made, and
\* only in a poll that saw the task ready.
C4_FinalFlagOnlyOnLast ==
    delegate = "Bound" =>
        \A i \in 1..Len(calls) :
            calls[i].final => (i = Len(calls) /\ calls[i].complete)

C4_Witness ==
    /\ delegate = "Bound"
    /\ Len(calls) >= 2
    /\ calls[Len(calls)].final /\ calls[Len(calls)].dequeued
    /\ calls[Len(calls) - 1].complete /\ ~calls[Len(calls) - 1].final
    /\ finished = 1

\* C5: the partial-results queue is set exactly when the delegate was bound
\* at construction, and stays that way through every poll.
C5_QueueOnlyWhenBound ==
    queueSet <=> (delegate = "Bound")

C5_Witness ==
    /\ delegate # "Bound" /\ ~queueSet
    /\ finished = 1 /\ lastPoll = "finalized"

\* C6: once the completing poll wrote the outputs, OutStatus is the Err the
\* worker left in the holder, OutResults is the Results it left there, and
\* the pin is OnSuccess exactly for GAMEKIT_SUCCESS, OnFailure otherwise.
C6_OutputsMirrorHolder ==
    outWrites = 1 =>
        /\ OutStatus = Err
        /\ OutResults = storedResults
        /\ OutSuccessOrFailure \in {OnSuccess, OnFailure}
        /\ (OutSuccessOrFailure = OnSuccess) <=> (Err.Status = GAMEKIT_SUCCESS)

C6_Witness ==
    /\ outWrites = 1
    /\ Err.Status # GAMEKIT_SUCCESS /\ OutSuccessOrFailure = OnFailure
    /\ storedResults # EmptyResults /\ OutResults = storedResults

\* The worker runs until its lambda returns and the latent action manager
\* polls a live, unfinished action every frame; a started poll runs to its end.
FairSpec ==
    /\ Spec
    /\ WF_vars(WorkerComplete)
    /\ WF_vars(WorkerRelease)
    /\ WF_vars(UpdateOperation)
    /\ WF_vars(DispatchDequeue)
    /\ WF_vars(DispatchLoopExit)
    /\ WF_vars(WriteOutputs)
    /\ WF_vars(FinishAndTrigger)

\* The game thread runs a started UpdateOperation to its end; nothing is
\* assumed about the worker or about further polls.
PollerFairSpec ==
    /\ Spec
    /\ WF_vars(DispatchDequeue)
    /\ WF_vars(DispatchLoopExit)
    /\ WF_vars(WriteOutputs)
    /\ WF_vars(FinishAndTrigger)

\* Every enqueued result has been passed to the delegate.
AllDelivered == DequeuedResults(calls) = enqueued

\* C3: with a bound delegate, once the worker has returned, every result it
\* enqueued is eventually passed to the delegate unless the manager stops
\* polling (the action is deleted); and a poll that saw the task ready has
\* delivered them all before it goes on to write the outputs.
C3_EnqueuedEventuallyDelivered ==
    /\ ((delegate = "Bound" /\ WorkerReturned) ~> (AllDelivered \/ ~actionAlive))
    /\ []((delegate = "Bound" /\ (pollPc \in {"write", "finish"} \/ finished = 1))
            => AllDelivered)

C3_Witness ==
    /\ delegate = "Bound" /\ WorkerReturned /\ actionAlive
    /\ Len(enqueued) = 2 /\ AllDelivered
    /\ calls[1].complete
    /\ pollPc = "write"

\* C7: the holder is live while the action or a running worker refers to it
\* and no access ever hits a freed holder; deleting the action does not stop
\* the worker, and after the deletion no step touches the output references.
C7_HolderOutlivesEitherParty ==
    /\ [](/\ ~strayAccess
          /\ (actionAlive \/ workerPc \in {"running", "ready"}) => HolderLive(refs))
    /\ [][/\ (~actionAlive => UNCHANGED <<outVars, outWrites, finished>>)
          /\ (workerPc = "running" => workerPc' \in {"running", "ready"})
          /\ (workerPc = "running" /\ actionAlive /\ ~actionAlive')
                => (workerPc' = "running" /\ HolderLive(refs'))]_vars

C7_Witness ==
    /\ ~actionAlive /\ workerPc = "running" /\ refs = {"worker"}
    /\ finished = 0 /\ calls = <<>>
    /\ PartialResultsQueue # <<>> /\ storedResults # EmptyResults

\* The outputs and the latent response.
C8_Published == <<OutResults, OutStatus, OutSuccessOrFailure, outWrites, finished>>

\* C8: a poll does one of two things. A poll that found the task not ready
\* leaves the outputs and the latent response unchanged in every step it
\* takes and returns as a forwarding poll; a poll that found it ready
\* writes the outputs once and returns having signalled completion.
C8_ForwardOrFinalize ==
    /\ [](pollPc \in {"write", "finish"} => bThreadComplete)
    /\ [][/\ (pollPc = "idle" /\ pollPc' = "idle") => UNCHANGED C8_Published
          /\ ((pollPc = "idle" /\ pollPc' # "idle" /\ ~bThreadComplete')
                \/ (pollPc # "idle" /\ ~bThreadComplete))
                => (UNCHANGED C8_Published /\ pollPc' \in {"drain", "idle"})
          /\ (pollPc # "idle" /\ pollPc' = "idle")
                => IF bThreadComplete
                   THEN finished' = finished + 1 /\ outWrites' = 1
                        /\ lastPoll' = "finalized"
                   ELSE UNCHANGED C8_Published /\ lastPoll' = "forwarded"]_vars

C8_Witness ==
    /\ lastPoll = "finalized" /\ finished = 1
    /\ delegate = "Bound"
    /\ Len(calls) >= 2 /\ ~calls[1].complete

\* C9: the library filename has no extension; it is
\* "aws-gamekit-authentication" on Windows, "libaws-gamekit-authentication" on
\* Mac and empty elsewhere, and there the load is a no-op.
C9_LibraryFilename ==
    LET name == getLibraryFilename(platform) IN
    /\ \A i \in 1..Len(name) : name[i] # "."
    /\ platform = "Windows" =>
          name = <<"a","w","s","-","g","a","m","e","k","i","t","-",
                   "a","u","t","h","e","n","t","i","c","a","t","i","o","n">>
    /\ platform = "Mac" =>
          name = <<"l","i","b","a","w","s","-","g","a","m","e","k","i","t","-",
                   "a","u","t","h","e","n","t","i","c","a","t","i","o","n">>
    /\ platform \notin {"Windows", "Mac"} => name = <<>>
    /\ library # "unloaded" =>
          ((library = "noop") <=> (platform \notin {"Windows", "Mac"}))

C9_Witness ==
    /\ platform \in {"IOS", "Android"}
    /\ library = "noop"

\* C10: the check on ThreadedResult never fires once LaunchThreadedWork was
\* called; a poll gets past it only after the launch, and when it fires no
\* output was written, no delegate was invoked and nothing was signalled.
C10_LaunchBeforePoll ==
    /\ launched => checkFailed # "ThreadedResult.IsValid"
    /\ (pollPc # "idle" \/ lastPoll # "none") => launched
    /\ checkFailed = "ThreadedResult.IsValid" =>
          /\ ~launched
          /\ outWrites = 0 /\ finished = 0 /\ calls = <<>>
          /\ OutResults = EmptyResults /\ OutSuccessOrFailure = OnSuccess

C10_Witness ==
    /\ checkFailed = "ThreadedResult.IsValid"
    /\ ~launched /\ actionAlive

\* C11: the check on PartialResultsQueue never fires: whenever the poller is
\* past the IsBound early return of DispatchPartialResults, the constructor
\* had allocated the queue for that same delegate.
C11_QueueCheckNeverFails ==
    /\ checkFailed # "PartialResultsQueue"
    /\ pollPc = "drain" => (queueSet /\ delegate = "Bound")
    /\ delegate = "Bound" => queueSet

C11_Witness ==
    /\ delegate = "Bound" /\ pollPc = "drain" /\ queueSet
    /\ checkFailed = "none"
    /\ PartialResultsQueue # <<>>

\* The invocations that carried the completion flag.
FinalCalls == {i \in 1..Len(calls) : calls[i].final}

\* C12: with a bound delegate the completion flag is delivered exactly once:
\* never twice, and once the completing poll is past its dispatch exactly one
\* invocation carried it. An invocation that did not come from the queue is
\* the trailing one: empty result, flag true, made by the completing poll
\* only when that poll dequeued nothing.
C12_FinalInvocationExactlyOnce ==
    delegate = "Bound" =>
        /\ Cardinality(FinalCalls) <= 1
        /\ (pollPc \in {"write", "finish"} \/ finished = 1) => Cardinality(FinalCalls) = 1
        /\ \A i \in 1..Len(calls) :
              ~calls[i].dequeued =>
                  /\ calls[i].final /\ calls[i].complete
                  /\ calls[i].result = EmptyResults
                  /\ \A j \in 1..Len(calls) : ~(calls[j].dequeued /\ calls[j].complete)

C12_Witness ==
    /\ delegate = "Bound" /\ finished = 1
    /\ Len(enqueued) = 2 /\ Len(calls) = 3
    /\ ~calls[1].complete /\ ~calls[2].complete
    /\ ~calls[3].dequeued /\ calls[3].final

\* C13: Results and Err are read (by the output writes) only in a poll that
\* saw the task ready, when the worker has returned; from that poll on no
\* worker write to Results or Err happens.
C13_NoReadWhileWorkerWrites ==
    /\ []((pollPc = "write" \/ outWrites >= 1) => (WorkerReturned /\ launched))
    /\ [][/\ (outWrites' # outWrites) => (WorkerReturned /\ bThreadComplete)
          /\ (pollPc = "write" \/ outWrites >= 1)
                => (Err' = Err /\ storedResults' = storedResults)]_vars

C13_Witness ==
    /\ outWrites = 1 /\ pollPc = "finish"
    /\ storedResults # EmptyResults /\ Err.Status # GAMEKIT_SUCCESS
    /\ lastPoll = "forwarded"

\* C14: in the completing poll every delivery, the one with the completion
\* flag included, precedes the output writes, and the writes precede the
\* signal to the latent response.
C14_CompletingPollOrder ==
    /\ []((delegate = "Bound" /\ outWrites >= 1)
            => (PartialResultsQueue = <<>> /\ FinalCalls # {}))
    /\ [](finished >= 1 => outWrites = 1)
    /\ [][/\ (outWrites >= 1 => calls' = calls)
          /\ (outWrites' # outWrites) => (finished = 0 /\ finished' = 0 /\ calls' = calls)
          /\ (finished' # finished)
                => (outWrites = 1 /\ UNCHANGED <<outVars, outWrites>> /\ calls' = calls)]_vars

C14_Witness ==
    /\ delegate = "Bound" /\ pollPc = "finish"
    /\ outWrites = 1 /\ finished = 0
    /\ Len(calls) >= 2 /\ calls[Len(calls)].final /\ calls[Len(calls)].dequeued

\* C15: an output reference is the caller's own variable exactly when its
\* address lies in [PersistentFrame, PersistentFrame + PersistentFrameSize),
\* and the static junk variable of its type otherwise; so every output write
\* lands inside the persistent frame or in a junk variable, never at a stack
\* address such as the local Result of the request-only overload.
C15_OutputRefsAvoidStack ==
    /\ \A o \in Outputs :
          LET a == outAddr[o]
              inside == PersistentFrame <= a /\ a < PersistentFrame + PersistentFrameSize
          IN /\ (outRef[o] = [junk |-> FALSE, addr |-> a, of |-> "caller"]) <=> inside
             /\ ~inside => outRef[o] = [junk |-> TRUE, addr |-> 0, of |-> o]
    /\ \A t \in written :
          \/ t.junk
          \/ (PersistentFrame <= t.addr /\ t.addr < PersistentFrame + PersistentFrameSize)
    /\ outWrites >= 1 => written = {outRef[o] : o \in Outputs}

C15_Witness ==
    /\ outWrites = 1 /\ finished = 1
    /\ outAddr["Results"] = PersistentFrame + PersistentFrameSize
    /\ [junk |-> TRUE, addr |-> 0, of |-> "Results"] \in written
    /\ [junk |-> FALSE, addr |-> PersistentFrame + PersistentFrameSize - 1, of |-> "caller"]
          \in written

\* C17: the action is registered under (LatentInfo.CallbackTarget,
\* LatentInfo.UUID) while it lives, the State handed back is the holder the
\* action polls, and what the worker stored through State is what the
\* completing poll published: Results, Err and every queued partial result.
C17_StateIsThePolledHolder ==
    /\ State = ThreadedState
    /\ actionAlive =>
          registry = {[target |-> LatentInfo.CallbackTarget, uuid |-> LatentInfo.UUID,
                       action |-> "action"]}
    /\ workerPc = "notStarted" => (storedErr = Err /\ storedResults = Results)
    /\ outWrites = 0 => (storedErr = Err /\ storedResults = Results)
    /\ outWrites = 1 =>
          /\ OutResults = storedResults
          /\ OutStatus = storedErr
          /\ delegate = "Bound" => DequeuedResults(calls) = enqueued

C17_Witness ==
    /\ delegate = "Bound" /\ finished = 1
    /\ Len(enqueued) = 2 /\ DequeuedResults(calls) = enqueued
    /\ storedResults # EmptyResults /\ OutResults = storedResults
    /\ storedErr.Status = "GAMEKIT_ERROR_B" /\ OutStatus = storedErr

\* The next step of a started poll.
C16_PollStep == DispatchDequeue \/ DispatchLoopExit \/ WriteOutputs \/ FinishAndTrigger

\* C16: a poll never waits: inside UpdateOperation the poller always has a
\* step it can take, whatever the worker does, and every started poll
\* returns; a poll that found the task not ready returns as soon as a Dequeue
\* fails, without a further invocation.
C16_PollNeverBlocks ==
    /\ [](pollPc # "idle" => ENABLED C16_PollStep)
    /\ ((pollPc # "idle") ~> (pollPc = "idle"))
    /\ [][(pollPc = "drain" /\ ~bThreadComplete /\ PartialResultsQueue = <<>>
            /\ pollPc' # pollPc)
                => (pollPc' = "idle" /\ calls' = calls /\ lastPoll' = "forwarded")]_vars

C16_Witness ==
    /\ pollPc = "drain" /\ ~bThreadComplete
    /\ workerPc = "running"
    /\ PartialResultsQueue = <<>> /\ Len(calls) = 1 /\ Len(enqueued) = 1

====
